---------------------------- MODULE Spec2Model ----------------------------
(***************************************************************************)
(* BFloat16 software arithmetic of 1-single-cycle/csrc/bf16_implementation.c *)
(* (bf16_add, bf16_sub, bf16_mul, bf16_div) as a state machine.            *)
(*                                                                         *)
(* A call is executed one straight-line segment or one loop iteration per  *)
(* step.  `frame' is the activation record of the running function: its    *)
(* position (pc) and the locals that are live there.  The operands a, b    *)
(* and the operation op are the inputs the test harness passes.            *)
(***************************************************************************)
EXTENDS Integers, Sequences, FiniteSets, TLC

VARIABLES op, a, b, frame

vars == <<op, a, b, frame>>

---------------------------------------------------------------------------
(* Bounds of the operand sets *)

\* exponent fields 0 .. ExpLo (zero, denormals, smallest normals)
ExpLo == 2
\* exponent fields 127-ExpMid .. 127+ExpMid (values around 1.0)
ExpMid == 2
\* exponent fields 255-ExpHi .. 255 (largest normals, infinity, NaN)
ExpHi == 2
\* mantissa fields 0 .. MantLo, together with 0x40 and 0x7F
MantLo == 1

Exps == (0 .. ExpLo) \cup ((127 - ExpMid) .. (127 + ExpMid)) \cup ((255 - ExpHi) .. 255)

Mants == (0 .. MantLo) \cup {64, 127}

Patterns == { s * 32768 + e * 128 + m : s \in {0, 1}, e \in Exps, m \in Mants }

Ops == {"add", "sub", "mul", "div"}

---------------------------------------------------------------------------
(* Machine integers *)

U16 == 65536

\* A uint32_t is held as the signed 32-bit integer with the same bit pattern:
\* a value of 2^31 or more is the negative number 2^32 below it.  Every
\* uint32_t of this code stays below 2^31 except the loop bound 32 - lz - 8,
\* which wraps to 2^32 - k when lz > 24.
\* x < y on two uint32_t
ULt(x, y) == IF (x >= 0) = (y >= 0) THEN x < y ELSE y < 0

\* x >> k
Shr(x, k) == x \div (2 ^ k)

\* bit k of x
Bit(x, k) == Shr(x, k) % 2

---------------------------------------------------------------------------
(* Constants and classification *)

BF16_EXP_BIAS == 127

BF16_SIGN_MASK == 32768

BF16_EXP_MASK == 32640

BF16_MANT_MASK == 127

\* 0x7FC0
BF16_NAN == 32704

BF16_ZERO == 0

\* a.bits >> 15 & 1, mutated to shift by 14
sign_of_shift14(bits) == Shr(bits, 14) % 2

\* a.bits >> 15 & 1
sign_of(bits) == Shr(bits, 15) % 2

\* a.bits >> 7 & 0xFF
exp_of(bits) == Shr(bits, 7) % 256

\* a.bits & 0x7F
mant_of(bits) == bits % 128

\* a.bits & BF16_EXP_MASK
exp_bits(bits) == (bits % BF16_SIGN_MASK) - (bits % (BF16_MANT_MASK + 1))

bf16_isnan(bits) == exp_bits(bits) = BF16_EXP_MASK /\ bits % (BF16_MANT_MASK + 1) # 0

bf16_isinf(bits) == exp_bits(bits) = BF16_EXP_MASK /\ bits % (BF16_MANT_MASK + 1) = 0

\* !(a.bits & 0x7FFF)
bf16_iszero(bits) == bits % 32768 = 0

RECURSIVE clz_loop(_, _, _)
clz_loop(x, n, c) ==
    IF c = 0
    THEN n - x
    ELSE LET y == Shr(x, c)
         IN  IF y # 0
             THEN clz_loop(y, n - c, c \div 2)
             ELSE clz_loop(x, n, c \div 2)

clz(x) == clz_loop(x, 32, 16)

\* a return statement: the call is over and `result' is the returned pattern
Return(bits) == [pc |-> "done", result |-> bits % U16]

---------------------------------------------------------------------------
(* bf16_add *)

\* the result expression without the mask of the mantissa
add_pack_nomask(result_sign, result_exp, result_mant) ==
    (result_sign * 32768 + (result_exp % 256) * 128 + result_mant) % U16

\* result_sign << 15 | (result_exp & 0xFF) << 7 | result_mant & 0x7F
add_pack(result_sign, result_exp, result_mant) ==
    (result_sign * 32768 + (result_exp % 256) * 128 + (result_mant % 128)) % U16

\* restore the implicit bit and align the mantissas on the smaller exponent;
\* ret names the operand returned when the difference exceeds 8
add_align(exp_a, exp_b, mant_a0, mant_b0) ==
    LET mant_a == IF exp_a # 0 THEN mant_a0 + 128 ELSE mant_a0
        mant_b == IF exp_b # 0 THEN mant_b0 + 128 ELSE mant_b0
        exp_diff == exp_a - exp_b
    IN  IF exp_diff > 0
        THEN [ret |-> IF exp_diff > 8 THEN "a" ELSE "none",
              result_exp |-> exp_b,
              mant_a |-> IF exp_diff > 8 THEN mant_a ELSE (mant_a * 2 ^ exp_diff) % U16,
              mant_b |-> mant_b]
        ELSE IF exp_diff < 0
        THEN [ret |-> IF exp_diff < -8 THEN "b" ELSE "none",
              result_exp |-> exp_a,
              mant_a |-> mant_a,
              mant_b |-> IF exp_diff < -8 THEN mant_b ELSE (mant_b * 2 ^ (-exp_diff)) % U16]
        ELSE [ret |-> "none", result_exp |-> exp_a, mant_a |-> mant_a, mant_b |-> mant_b]

\* the frame at the head of a right-shift renormalization loop
add_right_frame(pc, result_sign, result_exp, result_mant) ==
    [pc |-> pc, result_sign |-> result_sign, result_exp |-> result_exp,
     result_mant |-> result_mant, i |-> 0,
     lim |-> 32 - clz(result_mant) - 8]

\* sign_a == sign_b: add the mantissas
add_same(sign_a, result_exp, mant_a, mant_b) ==
    add_right_frame("add_same_loop", sign_a, result_exp, mant_a + mant_b)

\* sign_a != sign_b: subtract the smaller mantissa from the larger
add_opposite(sign_a, sign_b, result_exp, mant_a, mant_b) ==
    LET result_sign == IF mant_a >= mant_b THEN sign_a ELSE sign_b
        result_mant == IF mant_a >= mant_b THEN mant_a - mant_b ELSE mant_b - mant_a
    IN  IF result_mant = 0
        THEN Return(BF16_ZERO)
        ELSE IF result_mant < 128
        THEN [pc |-> "add_left_loop", result_sign |-> result_sign,
              result_exp |-> result_exp, result_mant |-> result_mant]
        ELSE add_right_frame("add_right_loop", result_sign, result_exp, result_mant)

\* bf16_add from its entry to the first loop or return
add_entry(x, y) ==
    LET sign_a == sign_of(x)
        sign_b == sign_of(y)
        exp_a == exp_of(x)
        exp_b == exp_of(y)
        mant_a == mant_of(x)
        mant_b == mant_of(y)
        al == add_align(exp_a, exp_b, mant_a, mant_b)
    IN  IF exp_a = 255
        THEN IF mant_a # 0
             THEN Return(x)
             ELSE IF exp_b = 255
             THEN Return(IF mant_b # 0 \/ sign_a = sign_b THEN y ELSE BF16_NAN)
             ELSE Return(x)
        ELSE IF exp_b = 255
        THEN Return(y)
        ELSE IF exp_a = 0 /\ mant_a = 0
        THEN Return(y)
        ELSE IF exp_b = 0 /\ mant_b = 0
        THEN Return(x)
        ELSE IF al.ret = "a"
        THEN Return(x)
        ELSE IF al.ret = "b"
        THEN Return(y)
        ELSE IF sign_a = sign_b
        THEN add_same(sign_a, al.result_exp, al.mant_a, al.mant_b)
        ELSE add_opposite(sign_a, sign_b, al.result_exp, al.mant_a, al.mant_b)

\* for (i = 0; i < 32 - lz - 8; i++) { result_mant >>= 1;
\*     if (++result_exp >= 255) return BF16_NAN(); }   then the result expression
add_right_step(f) ==
    IF ULt(f.i, f.lim)
    THEN IF f.result_exp + 1 >= 255
         THEN Return(BF16_NAN)
         ELSE [f EXCEPT !.result_mant = Shr(f.result_mant, 1),
                        !.result_exp = f.result_exp + 1,
                        !.i = f.i + 1]
    ELSE Return(add_pack(f.result_sign, f.result_exp, f.result_mant))

\* while (!(result_mant & 0x80)) { result_mant <<= 1;
\*     if (--result_exp <= 0) return BF16_ZERO(); }    then the result expression
add_left_step(f) ==
    IF Bit(f.result_mant, 7) = 0
    THEN IF f.result_exp - 1 <= 0
         THEN Return(BF16_ZERO)
         ELSE [f EXCEPT !.result_mant = f.result_mant * 2,
                        !.result_exp = f.result_exp - 1]
    ELSE Return(add_pack(f.result_sign, f.result_exp, f.result_mant))

\* bf16_sub: b.bits ^= 0x8000U
sub_flip(y) == IF y >= 32768 THEN y - 32768 ELSE y + 32768

---------------------------------------------------------------------------
(* bf16_mul *)

\* uint16_t result_sign = sign_a ^ sign_b
mul_result_sign(sign_a, sign_b) == (sign_a + sign_b) % 2

\* if (!exp_b) { while ... } else mant_b |= 0x80    (the test of exp_b)
mul_to_b(f) ==
    IF f.exp_b = 0
    THEN [f EXCEPT !.pc = "mul_norm_b"]
    ELSE [f EXCEPT !.pc = "mul_product", !.mant_b = f.mant_b + 128]

\* bf16_mul from its entry to the first loop or return
mul_entry(x, y) ==
    LET sign_a == sign_of(x)
        sign_b == sign_of(y)
        exp_a == exp_of(x)
        exp_b == exp_of(y)
        mant_a == mant_of(x)
        mant_b == mant_of(y)
        result_sign == mul_result_sign(sign_a, sign_b)
        f == [pc |-> "mul_norm_a", result_sign |-> result_sign,
              exp_a |-> exp_a, exp_b |-> exp_b,
              mant_a |-> mant_a, mant_b |-> mant_b, exp_adjust |-> 0]
    IN  IF exp_a = 255
        THEN IF mant_a # 0
             THEN Return(x)
             ELSE IF exp_b = 0 /\ mant_b = 0
             THEN Return(BF16_NAN)
             ELSE Return(result_sign * 32768 + 32640)
        ELSE IF exp_b = 255
        THEN IF mant_b # 0
             THEN Return(y)
             ELSE IF exp_a = 0 /\ mant_a = 0
             THEN Return(BF16_NAN)
             ELSE Return(result_sign * 32768 + 32640)
        ELSE IF (exp_a = 0 /\ mant_a = 0) \/ (exp_b = 0 /\ mant_b = 0)
        THEN Return(result_sign * 32768)
        ELSE IF exp_a = 0
        THEN f
        ELSE mul_to_b([f EXCEPT !.mant_a = mant_a + 128])

\* the loop on mant_a with an empty body: while (!(mant_a & 0x80));
mul_norm_a_spin(f) ==
    IF Bit(f.mant_a, 7) = 0
    THEN f
    ELSE mul_to_b([f EXCEPT !.exp_a = 1])

\* while (!(mant_a & 0x80)) { mant_a <<= 1; exp_adjust--; }  exp_a = 1;
mul_norm_a_step(f) ==
    IF Bit(f.mant_a, 7) = 0
    THEN [f EXCEPT !.mant_a = (f.mant_a * 2) % U16,
                   !.exp_adjust = f.exp_adjust - 1]
    ELSE mul_to_b([f EXCEPT !.exp_a = 1])

\* while (!(mant_b & 0x80)) { mant_b <<= 1; exp_adjust--; }  exp_b = 1;
mul_norm_b_step(f) ==
    IF Bit(f.mant_b, 7) = 0
    THEN [f EXCEPT !.mant_b = (f.mant_b * 2) % U16,
                   !.exp_adjust = f.exp_adjust - 1]
    ELSE [f EXCEPT !.pc = "mul_product", !.exp_b = 1]

\* the product, the combined exponent and the carry into the next power of two
mul_product(f) ==
    LET product == f.mant_a * f.mant_b
        exp == f.exp_a + f.exp_b - BF16_EXP_BIAS + f.exp_adjust
    IN  IF Bit(product, 15) = 1
        THEN [pc |-> "mul_encode", result_sign |-> f.result_sign,
              result_exp |-> exp + 1, result_mant |-> Shr(product, 8) % 128]
        ELSE [pc |-> "mul_encode", result_sign |-> f.result_sign,
              result_exp |-> exp, result_mant |-> Shr(product, 7) % 128]

\* saturation, flush to zero, denormal shift and the result expression
mul_encode(f) ==
    IF f.result_exp >= 255
    THEN Return(f.result_sign * 32768 + 32640)
    ELSE IF f.result_exp <= 0
    THEN IF f.result_exp < -6
         THEN Return(f.result_sign * 32768)
         ELSE Return(f.result_sign * 32768 + (Shr(f.result_mant, 1 - f.result_exp) % 128))
    ELSE Return(f.result_sign * 32768 + (f.result_exp % 256) * 128 + (f.result_mant % 128))

---------------------------------------------------------------------------
(* bf16_div *)

\* the result sign taken from the dividend alone
div_sign_of_a(sign_a, sign_b) == sign_a

\* uint16_t result_sign = sign_a ^ sign_b
div_result_sign(sign_a, sign_b) == (sign_a + sign_b) % 2

\* bf16_div from its entry to the long division or return
div_entry(x, y) ==
    LET sign_a == sign_of(x)
        sign_b == sign_of(y)
        exp_a == exp_of(x)
        exp_b == exp_of(y)
        mant_a == mant_of(x)
        mant_b == mant_of(y)
        result_sign == div_result_sign(sign_a, sign_b)
    IN  IF exp_b = 255
        THEN IF mant_b # 0
             THEN Return(y)
             ELSE IF exp_a = 255 /\ mant_a = 0
             THEN Return(BF16_NAN)
             ELSE Return(result_sign * 32768)
        ELSE IF exp_b = 0 /\ mant_b = 0
        THEN IF exp_a = 0 /\ mant_a = 0
             THEN Return(BF16_NAN)
             ELSE Return(result_sign * 32768 + 32640)
        ELSE IF exp_a = 255
        THEN IF mant_a # 0
             THEN Return(x)
             ELSE Return(result_sign * 32768 + 32640)
        ELSE IF exp_a = 0 /\ mant_a = 0
        THEN Return(result_sign * 32768)
        ELSE [pc |-> "div_long", result_sign |-> result_sign,
              exp_a |-> exp_a, exp_b |-> exp_b,
              dividend |-> (IF exp_a # 0 THEN mant_a + 128 ELSE mant_a) * 32768,
              divisor |-> IF exp_b # 0 THEN mant_b + 128 ELSE mant_b,
              quotient |-> 0, i |-> 0]

\* the exponent of the quotient and the test of its top bit, after the division
div_exponent(f) ==
    LET e0 == f.exp_a - f.exp_b + BF16_EXP_BIAS
        e1 == IF f.exp_a = 0 THEN e0 - 1 ELSE e0
        e2 == IF f.exp_b = 0 THEN e1 + 1 ELSE e1
    IN  IF Bit(f.quotient, 15) = 1
        THEN [pc |-> "div_encode", result_sign |-> f.result_sign,
              result_exp |-> e2, quotient |-> Shr(f.quotient, 8)]
        ELSE [pc |-> "div_norm", result_sign |-> f.result_sign,
              result_exp |-> e2, quotient |-> f.quotient]

\* for (i = 0; i < 16; i++) { quotient <<= 1;
\*     if (dividend >= (divisor << (15 - i))) { dividend -= ...; quotient |= 1; } }
div_long_step(f) ==
    IF f.i < 16
    THEN LET d == f.divisor * 2 ^ (15 - f.i)
             q == f.quotient * 2
         IN  IF f.dividend >= d
             THEN [f EXCEPT !.dividend = f.dividend - d, !.quotient = q + 1, !.i = f.i + 1]
             ELSE [f EXCEPT !.quotient = q, !.i = f.i + 1]
    ELSE div_exponent(f)

\* while (!(quotient & 0x8000) && result_exp > 1) { quotient <<= 1; result_exp--; }
\* quotient >>= 8;
div_norm_step(f) ==
    IF Bit(f.quotient, 15) = 0 /\ f.result_exp > 1
    THEN [f EXCEPT !.quotient = f.quotient * 2,
                   !.result_exp = f.result_exp - 1]
    ELSE [f EXCEPT !.pc = "div_encode", !.quotient = Shr(f.quotient, 8)]

\* quotient &= 0x7F, saturation, flush to zero and the result expression
div_encode(f) ==
    LET quotient == f.quotient % 128
    IN  IF f.result_exp >= 255
        THEN Return(f.result_sign * 32768 + 32640)
        ELSE IF f.result_exp <= 0
        THEN Return(f.result_sign * 32768)
        ELSE Return(f.result_sign * 32768 + (f.result_exp % 256) * 128 + quotient)

---------------------------------------------------------------------------
(* The machine *)

\* one step of the running call from frame f
StepFrame(f) ==
    CASE f.pc = "add_same_loop" -> add_right_step(f)
      [] f.pc = "add_right_loop" -> add_right_step(f)
      [] f.pc = "add_left_loop" -> add_left_step(f)
      [] f.pc = "mul_norm_a" -> mul_norm_a_step(f)
      [] f.pc = "mul_norm_b" -> mul_norm_b_step(f)
      [] f.pc = "mul_product" -> mul_product(f)
      [] f.pc = "mul_encode" -> mul_encode(f)
      [] f.pc = "div_long" -> div_long_step(f)
      [] f.pc = "div_norm" -> div_norm_step(f)
      [] f.pc = "div_encode" -> div_encode(f)

\* a call run to its return
RECURSIVE Run(_)
Run(f) == IF f.pc = "done" THEN f.result ELSE Run(StepFrame(f))

bf16_add(x, y) == Run(add_entry(x, y))

bf16_sub(x, y) == bf16_add(x, sub_flip(y))

bf16_mul(x, y) == Run(mul_entry(x, y))

bf16_div(x, y) == Run(div_entry(x, y))

Init ==
    /\ op \in Ops
    /\ a \in Patterns
    /\ b \in Patterns
    /\ frame = [pc |-> "call"]

test_bf16_add ==
    /\ frame.pc = "call"
    /\ op = "add"
    /\ frame' = add_entry(a, b)
    /\ UNCHANGED <<op, a, b>>

test_bf16_sub ==
    /\ frame.pc = "call"
    /\ op = "sub"
    /\ frame' = add_entry(a, sub_flip(b))
    /\ UNCHANGED <<op, a, b>>

test_bf16_mul ==
    /\ frame.pc = "call"
    /\ op = "mul"
    /\ frame' = mul_entry(a, b)
    /\ UNCHANGED <<op, a, b>>

test_bf16_div ==
    /\ frame.pc = "call"
    /\ op = "div"
    /\ frame' = div_entry(a, b)
    /\ UNCHANGED <<op, a, b>>

AddSameLoop ==
    /\ frame.pc = "add_same_loop"
    /\ frame' = add_right_step(frame)
    /\ UNCHANGED <<op, a, b>>

AddRightLoop ==
    /\ frame.pc = "add_right_loop"
    /\ frame' = add_right_step(frame)
    /\ UNCHANGED <<op, a, b>>

AddLeftLoop ==
    /\ frame.pc = "add_left_loop"
    /\ frame' = add_left_step(frame)
    /\ UNCHANGED <<op, a, b>>

MulNormA ==
    /\ frame.pc = "mul_norm_a"
    /\ frame' = mul_norm_a_step(frame)
    /\ UNCHANGED <<op, a, b>>

MulNormB ==
    /\ frame.pc = "mul_norm_b"
    /\ frame' = mul_norm_b_step(frame)
    /\ UNCHANGED <<op, a, b>>

MulProduct ==
    /\ frame.pc = "mul_product"
    /\ frame' = mul_product(frame)
    /\ UNCHANGED <<op, a, b>>

MulEncode ==
    /\ frame.pc = "mul_encode"
    /\ frame' = mul_encode(frame)
    /\ UNCHANGED <<op, a, b>>

DivLong ==
    /\ frame.pc = "div_long"
    /\ frame' = div_long_step(frame)
    /\ UNCHANGED <<op, a, b>>

DivNorm ==
    /\ frame.pc = "div_norm"
    /\ frame' = div_norm_step(frame)
    /\ UNCHANGED <<op, a, b>>

DivEncode ==
    /\ frame.pc = "div_encode"
    /\ frame' = div_encode(frame)
    /\ UNCHANGED <<op, a, b>>

Next ==
    \/ test_bf16_add
    \/ test_bf16_sub
    \/ test_bf16_mul
    \/ test_bf16_div
    \/ AddSameLoop
    \/ AddRightLoop
    \/ AddLeftLoop
    \/ MulNormA
    \/ MulNormB
    \/ MulProduct
    \/ MulEncode
    \/ DivLong
    \/ DivNorm
    \/ DivEncode

Spec == Init /\ [][Next]_vars

\* the processor keeps executing the running call
FairSpec == Spec /\ WF_vars(Next)

Done == frame.pc = "done"

---------------------------------------------------------------------------
(* Properties *)

\* an operand with exponent field below 255
Finite(bits) == exp_of(bits) # 255

\* the infinity of sign s
Infinity(s) == s * 32768 + 32640

\* C1: when a or b is NaN, multiply(a, b) returns a NaN operand unchanged:
\* the result is NaN and is one of the two operands.
C1_MulReturnsNaNOperand ==
    (Done /\ op = "mul" /\ (bf16_isnan(a) \/ bf16_isnan(b)))
        => (bf16_isnan(frame.result) /\ frame.result \in {a, b})

\* C2: when a or b is NaN, divide(a, b) returns a NaN pattern, also when the
\* dividend is NaN and the divisor is zero or infinity.
C2_DivPropagatesNaN ==
    (Done /\ op = "div" /\ (bf16_isnan(a) \/ bf16_isnan(b)))
        => bf16_isnan(frame.result)

\* C3: for finite a and b (zeros and denormals included) add(a, b) and
\* add(b, a) return the same pattern.
C3_AddCommutes ==
    (Done /\ op = "add" /\ Finite(a) /\ Finite(b))
        => frame.result = bf16_add(b, a)

\* C4 as stated: dividing a nonzero finite x by +0 or -0 returns the infinity
\* with the sign bit of x, and 0 / 0 returns NaN for every pair of zeros.
C4_DivByZeroSignOfDividend ==
    (Done /\ op = "div" /\ bf16_iszero(b))
        => /\ (Finite(a) /\ ~bf16_iszero(a)) => frame.result = Infinity(sign_of(a))
           /\ bf16_iszero(a) => bf16_isnan(frame.result)

\* C4 amended: dividing a nonzero finite x by +0 or -0 returns the infinity
\* whose sign bit is the sign bit of x XOR the sign bit of the zero divisor
\* (the sign of x for +0, its opposite for -0), and 0 / 0 returns NaN for
\* every pair of zeros.
C4_DivByZeroSignXor ==
    (Done /\ op = "div" /\ bf16_iszero(b))
        => /\ (Finite(a) /\ ~bf16_iszero(a))
                => frame.result = Infinity((Shr(a, 15) + Shr(b, 15)) % 2)
           /\ bf16_iszero(a) => bf16_isnan(frame.result)

\* 1.0 / -0 has returned -infinity
C4_Witness ==
    Done /\ op = "div" /\ a = 16256 /\ b = 32768 /\ frame.result = 65408

\* the step at which an operation finds its result exponent at 255 or above
Overflowing ==
    \/ /\ frame.pc \in {"add_same_loop", "add_right_loop"}
       /\ ULt(frame.i, frame.lim)
       /\ frame.result_exp + 1 >= 255
    \/ /\ frame.pc \in {"mul_encode", "div_encode"}
       /\ frame.result_exp >= 255

\* C5: in add, subtract, multiply and divide, whenever the computed result
\* exponent reaches or exceeds 255 the operation returns the infinity that
\* carries the result's sign.
C5_OverflowReturnsInfinity ==
    [][Overflowing => (frame'.pc = "done" /\ frame'.result = Infinity(frame.result_sign))]_vars

\* C6: every call of add, subtract, multiply and divide terminates: from every
\* pair of operands the call reaches its return.
C6_EveryCallReturns == <>Done

\* the add renormalization loop at its 255th test under a wrapped bound
\* (32 - lz - 8 computed with lz > 24)
C6_Witness ==
    frame.pc = "add_same_loop" /\ frame.lim < 0 /\ frame.i = 254

\* C7: the four reference vectors hold bit for bit: add(0x3F80, 0x3F80) =
\* 0x4000, subtract(0x4040, 0x4000) = 0x3F80, multiply(0x4000, 0x4040) =
\* 0x40C0, divide(0x40C0, 0x4000) = 0x4040.
C7_ReferenceVectors ==
    Done =>
        /\ (op = "add" /\ a = 16256 /\ b = 16256) => frame.result = 16384
        /\ (op = "sub" /\ a = 16448 /\ b = 16384) => frame.result = 16256
        /\ (op = "mul" /\ a = 16384 /\ b = 16448) => frame.result = 16576
        /\ (op = "div" /\ a = 16576 /\ b = 16384) => frame.result = 16448

\* the call 6.0 / 2.0 has returned
C7_Witness ==
    Done /\ op = "div" /\ a = 16576 /\ b = 16384 /\ frame.result = 16448

\* C8 as stated: for every pattern x, add(x, x with its sign bit flipped)
\* returns a zero pattern.
C8_AddNegationIsZero ==
    (Done /\ op = "add" /\ b = sub_flip(a)) => bf16_iszero(frame.result)

\* C8 amended: for every finite pattern x (exponent field not 255),
\* add(x, x with its sign bit flipped) returns a zero pattern.
C8_AddFiniteNegationIsZero ==
    (Done /\ op = "add" /\ b = sub_flip(a) /\ Finite(a)) => bf16_iszero(frame.result)

\* 3.0 + -3.0 has returned
C8_Witness ==
    Done /\ op = "add" /\ a = 16448 /\ b = 49216 /\ frame.result = BF16_ZERO

\* C9: a multiply of finite nonzero operands whose combined exponent lies in
\* (-6, 0] returns a denormal: sign = XOR of the operand signs, exponent
\* field 0 and a nonzero mantissa; it is not flushed to zero.
C9_MulDenormalNotFlushed ==
    [][(frame.pc = "mul_encode" /\ frame.result_exp > -6 /\ frame.result_exp <= 0)
        => /\ frame'.pc = "done"
           /\ Shr(frame'.result, 15) = (Shr(a, 15) + Shr(b, 15)) % 2
           /\ Shr(frame'.result, 7) % 256 = 0
           /\ frame'.result % 128 # 0]_vars

\* C10: for same-sign operands of add whose aligned mantissa sum is below
\* 0x100, no shift occurs and the result is the finite pattern
\* sign | (smaller operand exponent) | (sum & 0x7F).
C10_SmallSumNotShifted ==
    [][(frame.pc = "add_same_loop" /\ frame.i = 0 /\ frame.result_mant < 256)
        => /\ frame'.pc = "done"
           /\ frame'.result = frame.result_sign * 32768
                                + frame.result_exp * 128
                                + (frame.result_mant % 128)]_vars

=============================================================================
